---- MODULE Spec2Model ----
(***************************************************************************)
(* The playground page (src/pages/play/Playground.tsx): the panel context, *)
(* the editor context with its asynchronous updateModel, the InputPane     *)
(* (onMount, debounced onChange) and the OutputPane's source-map link.     *)
(*                                                                         *)
(* Strings that reach btoa are sequences of UTF-16 code units, so that the *)
(* replacement of non-ASCII units and the base64 encoding are computed.    *)
(***************************************************************************)
EXTENDS Integers, Sequences, FiniteSets, TLC

\* ------------------------------------------------------------------ bounds

\* updateModel calls (compile cycles) a run may start.
MaxCycles == 3
\* A quiet period is this many clock steps long.
TicksPerWait == 2
\* Total length of the three texts the source-map link is computed for in SpecUrl.
MaxLen == 5

\* ------------------------------------------------------- program constants

\* debounce(..., 250)
Wait == 250

TickMs == (Wait + TicksPerWait - 1) \div TicksPerWait

\* enum PanelKind { Input, Output }
PanelKind == {"Input", "Output"}

\* ------------------------------------------------------------ source-map URL

Comma == 44
Pad == 61
QuestionMark == 63

\* Variant with the class one unit short, /[^\x00-\x7E]/: 0x7F is replaced too.
ReplaceNonAsciiOffByOne(s) ==
    [i \in 1..Len(s) |-> IF s[i] >= 127 THEN QuestionMark ELSE s[i]]

\* s.replace(/[^\x00-\x7F]/g, "?"): every UTF-16 unit above 0x7F becomes "?".
ReplaceNonAscii(s) ==
    [i \in 1..Len(s) |-> IF s[i] > 127 THEN QuestionMark ELSE s[i]]

\* The base64 alphabet A-Z a-z 0-9 + /
B64Char(i) ==
    IF i < 26 THEN 65 + i
    ELSE IF i < 52 THEN 97 + (i - 26)
    ELSE IF i < 62 THEN 48 + (i - 52)
    ELSE IF i = 62 THEN 43
    ELSE 47

\* btoa throws InvalidCharacterError on a unit outside the byte range.
BtoaThrows(s) == \E i \in 1..Len(s) : s[i] > 255

RECURSIVE btoa(_)
btoa(s) ==
    IF Len(s) = 0 THEN <<>>
    ELSE IF Len(s) = 1 THEN
        LET n == s[1] * 65536
        IN  <<B64Char(n \div 262144), B64Char((n \div 4096) % 64), Pad, Pad>>
    ELSE IF Len(s) = 2 THEN
        LET n == s[1] * 65536 + s[2] * 256
        IN  <<B64Char(n \div 262144), B64Char((n \div 4096) % 64),
              B64Char((n \div 64) % 64), Pad>>
    ELSE
        LET n == s[1] * 65536 + s[2] * 256 + s[3]
        IN  <<B64Char(n \div 262144), B64Char((n \div 4096) % 64),
              B64Char((n \div 64) % 64), B64Char(n % 64)>>
            \o btoa(SubSeq(s, 4, Len(s)))

\* [..].join(",")
Join(parts) ==
    IF Len(parts) = 0 THEN <<>>
    ELSE LET joined[i \in 1..Len(parts)] ==
                IF i = 1 THEN parts[1] ELSE joined[i - 1] \o <<Comma>> \o parts[i]
         IN  joined[Len(parts)]

UrlBase == "https://sokra.github.io/source-map-visualization#base64,"

\* One element of the map: btoa(s.replace(...)).
EncodeInput(s) == btoa(ReplaceNonAscii(s))

\* The useMemo body of OutputPane: the link is the base followed by the
\* payload; a throwing btoa makes the render throw.
SourceMapUrl(lua, sourceMap, source) ==
    IF \/ BtoaThrows(ReplaceNonAscii(lua))
       \/ BtoaThrows(ReplaceNonAscii(sourceMap))
       \/ BtoaThrows(ReplaceNonAscii(source))
    THEN [threw |-> TRUE, base |-> UrlBase, payload |-> <<>>]
    ELSE [threw |-> FALSE, base |-> UrlBase,
          payload |-> Join(<<EncodeInput(lua), EncodeInput(sourceMap), EncodeInput(source)>>)]

\* ------------------------------------------------- decoding (the receiver)

B64Index(c) ==
    IF c >= 65 /\ c <= 90 THEN c - 65
    ELSE IF c >= 97 /\ c <= 122 THEN c - 97 + 26
    ELSE IF c >= 48 /\ c <= 57 THEN c - 48 + 52
    ELSE IF c = 43 THEN 62
    ELSE 63

RECURSIVE atob(_)
atob(e) ==
    IF Len(e) < 4 THEN <<>>
    ELSE
        LET a == B64Index(e[1])
            b == B64Index(e[2])
        IN  IF e[3] = Pad THEN <<(a * 4 + b \div 16) % 256>>
            ELSE LET c == B64Index(e[3])
                 IN  IF e[4] = Pad
                     THEN <<(a * 4 + b \div 16) % 256, ((b % 16) * 16 + c \div 4) % 256>>
                     ELSE <<(a * 4 + b \div 16) % 256, ((b % 16) * 16 + c \div 4) % 256,
                            ((c % 4) * 64 + B64Index(e[4])) % 256>>
                          \o atob(SubSeq(e, 5, Len(e)))

\* payload.split(",")
RECURSIVE SplitFrom(_, _, _)
SplitFrom(s, i, cur) ==
    IF i > Len(s) THEN <<cur>>
    ELSE IF s[i] = Comma THEN <<cur>> \o SplitFrom(s, i + 1, <<>>)
    ELSE SplitFrom(s, i + 1, Append(cur, s[i]))

Split(s) == SplitFrom(s, 1, <<>>)

IsAscii(s) == \A i \in 1..Len(s) : s[i] <= 127

\* ------------------------------------------------------------ collaborators

\* Editor contents the user can produce: "p" (a program that prints) and
\* "n" (a program that calls a nil value at run time).
CodePrint == <<112>>
CodeCallNil == <<110>>
Texts == {CodePrint, CodeCallNil}

\* getInitialCode(): the code history's text at page load.
InitialCode == CodePrint

\* client.getTranspileOutput(uri): the worker's answer for the model text it
\* reads: compiled text, debug map and syntax tree of that text.
getTranspileOutput(t) ==
    [lua |-> <<76>> \o t, sourceMap |-> <<77>> \o t, ast |-> <<1>> \o t]

\* executeLua(lua): the console messages of a run; a run-time failure is a
\* message of method "error".
executeLua(lua) ==
    IF lua = getTranspileOutput(CodeCallNil).lua
    THEN <<[method |-> "error", data |-> <<Tail(lua)>>]>>
    ELSE <<[method |-> "log", data |-> <<Tail(lua)>>]>>

\* ---------------------------------------------------------------- the state

VARIABLES
    activePanel,   \* PanelContextProvider: useState(PanelKind.Input)
    state,         \* EditorContextProvider: useState<EditorState>
    sourceMapUrl,  \* OutputPane: useMemo over [lua, sourceMap, source]
    text,          \* the editor model's value (model.getValue())
    codeHistory,   \* the text last given to updateCodeHistory
    rerendered,    \* InputPane has rendered again before the editor mounted
    closure,       \* the let-variables myWorker / myEditor of the first render's
                   \* closure and of the latest later render's
    mountPc,       \* position of the async onMount
    timer,         \* the debounce timer of onChange
    nCycles,       \* updateModel calls so far
    cyc,           \* per updateModel call: position and locals
    writer,        \* history: the call whose setState wrote state (0: none)
    inOrder,       \* history: calls have finished in the order they started
    sinceEdit,     \* history: ms since the last change event (capped at Wait)
    burst          \* history: the current burst's edits (1, or 2 for several),
                   \* what onChange's callback did since the burst began, and
                   \* whether onMount had ended when it ran

vars == <<activePanel, state, sourceMapUrl, text, codeHistory, rerendered, closure,
          mountPc, timer, nCycles, cyc, writer, inOrder, sinceEdit, burst>>

editorVars == <<state, sourceMapUrl, writer>>
cycleVars == <<nCycles, cyc, inOrder>>
inputVars == <<text, codeHistory, timer, sinceEdit, burst>>
mountVars == <<rerendered, closure, mountPc>>

\* useState<EditorState>({ source: "", lua: "", ast: {}, sourceMap: "", results: [] })
InitialEditorState ==
    [source |-> <<>>, lua |-> <<>>, ast |-> <<>>, sourceMap |-> <<>>, results |-> <<>>]

\* The locals of one updateModel call before it has run.
NoCycle ==
    [pc |-> "idle", source |-> <<>>, lua |-> <<>>, ast |-> <<>>, sourceMap |-> <<>>,
     results |-> <<>>, commits |-> 0]

NoHandles == [myWorker |-> FALSE, myEditor |-> FALSE]

NoBurst == [edits |-> 0, calls |-> 0, history |-> 0, dropped |-> FALSE, mounted |-> FALSE]

Init ==
    /\ activePanel = "Input"
    /\ state = InitialEditorState
    /\ sourceMapUrl = SourceMapUrl(<<>>, <<>>, <<>>)
    /\ text = InitialCode
    /\ codeHistory = InitialCode
    /\ rerendered = FALSE
    /\ closure = [r \in {"first", "later"} |-> NoHandles]
    /\ mountPc = "unmounted"
    /\ timer = [pending |-> FALSE, remaining |-> 0, arg |-> <<>>]
    /\ nCycles = 0
    /\ cyc = [c \in 1..MaxCycles |-> NoCycle]
    /\ writer = 0
    /\ inOrder = TRUE
    /\ sinceEdit = Wait
    /\ burst = NoBurst

\* ------------------------------------------------------------ panel context

\* A render of InputPane makes a new closure (new myWorker, myEditor and
\* onMount). Only a render before the editor has mounted matters: onMount runs
\* once, and onChange is never taken from a later render.
Rerendered == rerendered \/ mountPc = "unmounted"

\* Variant in which the two contexts share one state object, so that a panel
\* switch writes the editor state back to its initial value.
SetActivePanelResetsEditor(panelID) ==
    /\ activePanel' = panelID
    /\ rerendered' = IF panelID # activePanel THEN Rerendered ELSE rerendered
    /\ state' = InitialEditorState
    /\ sourceMapUrl' = SourceMapUrl(<<>>, <<>>, <<>>)
    /\ UNCHANGED <<closure, mountPc, writer>>
    /\ UNCHANGED <<cycleVars, inputVars>>

\* setActivePanel(panelID), the navbar buttons' onClick: setting the panel it
\* already has renders nothing.
SetActivePanel(panelID) ==
    /\ activePanel' = panelID
    /\ rerendered' = IF panelID # activePanel THEN Rerendered ELSE rerendered
    /\ UNCHANGED <<closure, mountPc>>
    /\ UNCHANGED <<editorVars, cycleVars, inputVars>>

\* ----------------------------------------------------------- editor context

\* setState(s) by call c, and the OutputPane render it causes.
SetState(s, c) ==
    /\ state' = s
    /\ sourceMapUrl' = SourceMapUrl(s.lua, s.sourceMap, s.source)
    /\ writer' = c

\* updateModel(worker, model) is called: it runs up to its first await,
\* having asked the worker for the transpile output.
UpdateModelCalled(cs, c) == [cs EXCEPT ![c] = [NoCycle EXCEPT !.pc = "compiling"]]

\* The worker transpiles the model text it holds when it serves the request.
WorkerTranspiles(c) ==
    /\ c <= nCycles
    /\ cyc[c].pc = "compiling"
    /\ LET out == getTranspileOutput(text)
       IN  cyc' = [cyc EXCEPT ![c].pc = "transpiled", ![c].lua = out.lua,
                              ![c].ast = out.ast, ![c].sourceMap = out.sourceMap]
    /\ UNCHANGED <<nCycles, inOrder, activePanel>>
    /\ UNCHANGED <<editorVars, inputVars, mountVars>>

\* An await of call c can resume as soon as its promise has an answer.
CanResumeAfterTranspile(c) == c <= nCycles /\ cyc[c].pc = "transpiled"

CanResumeAfterExecute(c) == c <= nCycles /\ cyc[c].pc = "executing"

\* Variant whose first setState keeps the results on display instead of
\* clearing them.
TranspileResolvesKeepsResults(c) ==
    /\ CanResumeAfterTranspile(c)
    /\ cyc' = [cyc EXCEPT ![c].pc = "executing", ![c].source = text, ![c].commits = 1]
    /\ SetState([source |-> text, lua |-> cyc[c].lua, ast |-> cyc[c].ast,
                 sourceMap |-> cyc[c].sourceMap, results |-> state.results], c)
    /\ UNCHANGED <<nCycles, inOrder, activePanel>>
    /\ UNCHANGED <<inputVars, mountVars>>

\* The first await resolves: source is read, the compile results are stored
\* with results: [], and executeLua(lua) is called.
TranspileResolves(c) ==
    /\ CanResumeAfterTranspile(c)
    /\ cyc' = [cyc EXCEPT ![c].pc = "executing", ![c].source = text, ![c].commits = 1]
    /\ SetState([source |-> text, lua |-> cyc[c].lua, ast |-> cyc[c].ast,
                 sourceMap |-> cyc[c].sourceMap, results |-> <<>>], c)
    /\ UNCHANGED <<nCycles, inOrder, activePanel>>
    /\ UNCHANGED <<inputVars, mountVars>>

\* The first await rejects (the worker fails): nothing catches it, the call
\* ends with a rejected promise and state is left as it was.
TranspileRejects(c) ==
    /\ c <= nCycles
    /\ cyc[c].pc = "compiling"
    /\ cyc' = [cyc EXCEPT ![c].pc = "rejected"]
    /\ UNCHANGED <<nCycles, inOrder, activePanel>>
    /\ UNCHANGED <<editorVars, inputVars, mountVars>>

\* Variant that drops the run's messages of a call that is no longer the
\* newest (a cancelled cycle).
ExecuteResolvesIfNewest(c) ==
    /\ CanResumeAfterExecute(c)
    /\ LET results == executeLua(cyc[c].lua)
       IN  IF c = nCycles
           THEN /\ cyc' = [cyc EXCEPT ![c].pc = "done", ![c].results = results,
                                      ![c].commits = 2]
                /\ SetState([source |-> cyc[c].source, lua |-> cyc[c].lua,
                             ast |-> cyc[c].ast, sourceMap |-> cyc[c].sourceMap,
                             results |-> results], c)
           ELSE /\ cyc' = [cyc EXCEPT ![c].pc = "done", ![c].results = results]
                /\ UNCHANGED editorVars
    /\ inOrder' = (inOrder /\ \A d \in 1..(c - 1) : cyc[d].pc = "done")
    /\ UNCHANGED <<nCycles, activePanel>>
    /\ UNCHANGED <<inputVars, mountVars>>

\* Variant whose second setState spreads the state the memoized callback
\* closed over (the initial one) instead of the call's own locals.
ExecuteResolvesStaleState(c) ==
    /\ CanResumeAfterExecute(c)
    /\ LET results == executeLua(cyc[c].lua)
       IN  /\ cyc' = [cyc EXCEPT ![c].pc = "done", ![c].results = results,
                                 ![c].commits = 2]
           /\ SetState([InitialEditorState EXCEPT !.results = results], c)
    /\ inOrder' = (inOrder /\ \A d \in 1..(c - 1) : cyc[d].pc = "done")
    /\ UNCHANGED <<nCycles, activePanel>>
    /\ UNCHANGED <<inputVars, mountVars>>

\* The second await resolves: the same compile results are stored again,
\* now with the run's messages.
ExecuteResolves(c) ==
    /\ CanResumeAfterExecute(c)
    /\ LET results == executeLua(cyc[c].lua)
       IN  /\ cyc' = [cyc EXCEPT ![c].pc = "done", ![c].results = results,
                                 ![c].commits = 2]
           /\ SetState([source |-> cyc[c].source, lua |-> cyc[c].lua,
                        ast |-> cyc[c].ast, sourceMap |-> cyc[c].sourceMap,
                        results |-> results], c)
    /\ inOrder' = (inOrder /\ \A d \in 1..(c - 1) : cyc[d].pc = "done")
    /\ UNCHANGED <<nCycles, activePanel>>
    /\ UNCHANGED <<inputVars, mountVars>>

\* ---------------------------------------------------------------- InputPane

\* Variant in which the onMount of the latest render is the one called.
OnMountClosureLatest == IF rerendered THEN "later" ELSE "first"

\* The closure onMount writes myEditor and myWorker in. MonacoEditor
\* (@monaco-editor/react) keeps the onMount prop of its first render in a ref
\* and calls that one when the editor is ready, so the handles go to the
\* closure of InputPane's first render.
OnMountClosure == "first"

\* useCallback(debounce(...), []): onChange is the first render's, and reads
\* the first render's myWorker and myEditor.
OnChangeClosure == "first"

\* onMount up to its first await: myEditor = editor.
EditorMounts ==
    /\ mountPc = "unmounted"
    /\ closure' = [closure EXCEPT ![OnMountClosure].myEditor = TRUE]
    /\ mountPc' = "awaitGetter"
    /\ UNCHANGED <<rerendered, activePanel>>
    /\ UNCHANGED <<editorVars, cycleVars, inputVars>>

\* await monaco.languages.typescript.getTypeScriptWorker() resolves.
WorkerGetterResolves ==
    /\ mountPc = "awaitGetter"
    /\ mountPc' = "awaitWorker"
    /\ UNCHANGED <<rerendered, closure, activePanel>>
    /\ UNCHANGED <<editorVars, cycleVars, inputVars>>

\* await workerGetter(uri) resolves: myWorker is stored and updateModel is
\* called for the first time.
WorkerResolves ==
    /\ mountPc = "awaitWorker"
    /\ closure' = [closure EXCEPT ![OnMountClosure].myWorker = TRUE]
    /\ mountPc' = "mounted"
    /\ nCycles' = nCycles + 1
    /\ cyc' = UpdateModelCalled(cyc, nCycles + 1)
    /\ UNCHANGED <<rerendered, inOrder, activePanel>>
    /\ UNCHANGED <<editorVars, inputVars>>

\* The function given to debounce, called with the last change's value; b is
\* the record of the current burst.
OnChangeCallback(newValue, b) ==
    IF closure[OnChangeClosure].myWorker /\ closure[OnChangeClosure].myEditor
    THEN /\ codeHistory' = newValue
         /\ nCycles' = nCycles + 1
         /\ cyc' = UpdateModelCalled(cyc, nCycles + 1)
         /\ burst' = [b EXCEPT !.calls = @ + 1, !.history = @ + 1,
                                !.mounted = (mountPc = "mounted")]
    ELSE /\ burst' = [b EXCEPT !.dropped = TRUE, !.mounted = (mountPc = "mounted")]
         /\ UNCHANGED <<codeHistory, nCycles, cyc>>

\* Variant without debounce: every change event runs the callback at once.
OnChangeUndebounced(newValue, b) ==
    /\ OnChangeCallback(newValue, b)
    /\ timer' = timer

\* onChange(newValue): debounce restarts its timer, keeping the last value.
OnChange(newValue, b) ==
    /\ timer' = [pending |-> TRUE, remaining |-> Wait, arg |-> newValue]
    /\ burst' = b
    /\ UNCHANGED <<codeHistory, nCycles, cyc>>

\* The quiet period is over. The timer's callback runs at that moment: no
\* further change event or clock step comes before it.
TimerDue == timer.pending /\ timer.remaining = 0

\* The user changes the editor text to t: the model changes and the change
\* event reaches onChange. An edit less than Wait after the previous one goes on
\* with its burst, a later one begins a burst.
Edit(t) ==
    /\ mountPc # "unmounted"
    /\ t # text
    /\ ~TimerDue
    /\ nCycles + (IF mountPc = "mounted" THEN 0 ELSE 1) < MaxCycles
    /\ text' = t
    /\ sinceEdit' = 0
    /\ LET b == IF sinceEdit < Wait THEN burst ELSE NoBurst
       IN  OnChange(t, [b EXCEPT !.edits = IF @ < 2 THEN @ + 1 ELSE @])
    /\ UNCHANGED <<inOrder, activePanel>>
    /\ UNCHANGED <<editorVars, mountVars>>

\* Time passes.
Tick ==
    /\ ~TimerDue
    /\ sinceEdit < Wait \/ timer.pending
    /\ sinceEdit' = IF sinceEdit + TickMs > Wait THEN Wait ELSE sinceEdit + TickMs
    /\ timer' = IF timer.pending
                THEN [timer EXCEPT !.remaining = IF @ > TickMs THEN @ - TickMs ELSE 0]
                ELSE timer
    /\ UNCHANGED <<text, codeHistory, burst, activePanel>>
    /\ UNCHANGED <<editorVars, cycleVars, mountVars>>

\* The debounce timer fires: the callback runs with the last change's value.
TimerFires ==
    /\ TimerDue
    /\ timer' = [pending |-> FALSE, remaining |-> 0, arg |-> <<>>]
    /\ OnChangeCallback(timer.arg, burst)
    /\ UNCHANGED <<text, sinceEdit, inOrder, activePanel>>
    /\ UNCHANGED <<editorVars, mountVars>>

\* --------------------------------------------------------------- the system

Next ==
    \/ \E panelID \in PanelKind : SetActivePanel(panelID)
    \/ EditorMounts
    \/ WorkerGetterResolves
    \/ WorkerResolves
    \/ \E t \in Texts : Edit(t)
    \/ Tick
    \/ TimerFires
    \/ \E c \in 1..MaxCycles : WorkerTranspiles(c)
    \/ \E c \in 1..MaxCycles : TranspileResolves(c)
    \/ \E c \in 1..MaxCycles : TranspileRejects(c)
    \/ \E c \in 1..MaxCycles : ExecuteResolves(c)

Spec == Init /\ [][Next]_vars

\* ------------------------------------------- the link over arbitrary strings

UrlUnits == {Comma, 127, 233, 8364}

\* An EditorState with the given texts replaces the state: setState and the
\* OutputPane render it causes.
EditorStateReplaced(lua, sourceMap, source) ==
    /\ SetState([source |-> source, lua |-> lua, ast |-> <<>>, sourceMap |-> sourceMap,
                 results |-> <<>>], writer)
    /\ UNCHANGED <<activePanel, cycleVars, inputVars, mountVars>>

\* The next state's texts are the current ones with one unit more in one of
\* them: every triple of strings over UrlUnits of total length up to MaxLen
\* is reached.
NextUrl ==
    /\ Len(state.lua) + Len(state.sourceMap) + Len(state.source) < MaxLen
    /\ \E u \in UrlUnits :
        \/ EditorStateReplaced(Append(state.lua, u), state.sourceMap, state.source)
        \/ EditorStateReplaced(state.lua, Append(state.sourceMap, u), state.source)
        \/ EditorStateReplaced(state.lua, state.sourceMap, Append(state.source, u))

SpecUrl == Init /\ [][NextUrl]_vars

\* ------------------------------------------------------------------- claims

Cycles == 1..nCycles

\* The EditorState call c writes at its first and at its second setState.
CompiledState(c) ==
    [source |-> cyc[c].source, lua |-> cyc[c].lua, ast |-> cyc[c].ast,
     sourceMap |-> cyc[c].sourceMap, results |-> <<>>]

ExecutedState(c) == [CompiledState(c) EXCEPT !.results = executeLua(cyc[c].lua)]

\* The newest call whose compile phase has committed (0: none).
NewestCommitted ==
    IF \E c \in Cycles : cyc[c].commits >= 1
    THEN CHOOSE c \in Cycles :
            /\ cyc[c].commits >= 1
            /\ \A d \in Cycles : cyc[d].commits >= 1 => d <= c
    ELSE 0

\* C1: once a newer cycle's compile phase has committed, the visible state is
\* never again one written by a cycle that was triggered earlier.
C1_NoStaleOutput == writer >= NewestCommitted

\* C2: when no debounce timer is pending, every updateModel call has finished
\* and the calls finished in the order they were made, the visible state is
\* the executed state of the last call made.
C2_SettledShowsLastCycle ==
    (/\ ~timer.pending
     /\ nCycles >= 1
     /\ inOrder
     /\ \A c \in Cycles : cyc[c].pc = "done")
    => /\ writer = nCycles
       /\ state = ExecutedState(nCycles)

C2_Witness ==
    /\ ~timer.pending
    /\ nCycles >= 2
    /\ inOrder
    /\ \A c \in Cycles : cyc[c].pc = "done"
    /\ cyc[1].lua # cyc[nCycles].lua
    /\ state = ExecutedState(nCycles)

\* C3: the panel starts as Input, and a step that changes activePanel changes
\* nothing of the editor state, the link, the cycles, the timer, the text or
\* the code history: it starts no cycle and cancels none.
C3_PanelSwitchFrame ==
    /\ activePanel = "Input"
    /\ [][activePanel' # activePanel =>
            /\ activePanel' \in PanelKind
            /\ state' = state
            /\ sourceMapUrl' = sourceMapUrl
            /\ nCycles' = nCycles
            /\ cyc' = cyc
            /\ timer' = timer
            /\ text' = text
            /\ codeHistory' = codeHistory]_vars

C3_Witness ==
    /\ activePanel = "Output"
    /\ state.results # <<>>
    /\ timer.pending
    /\ \E c \in Cycles : cyc[c].pc = "executing"

\* C4 as stated: every burst of edits, once its quiet period is over, has
\* triggered exactly one updateModel call and one updateCodeHistory call.
C4_EveryBurstTriggersOneCycle ==
    /\ burst.calls <= 1
    /\ burst.history = burst.calls
    /\ sinceEdit < Wait => burst.calls = 0
    /\ (burst.edits > 0 /\ ~timer.pending) => burst.calls = 1

\* C4, amended: while a burst goes on (less than Wait since its last edit) the
\* callback has not run; once the quiet period is over and the timer has
\* fired, the burst has triggered exactly one updateModel call, with one
\* updateCodeHistory call giving the history the editor's text, if onMount had
\* ended when the timer fired, and neither call otherwise.
C4_DebounceCoalesces ==
    /\ burst.calls <= 1
    /\ burst.history = burst.calls
    /\ sinceEdit < Wait => (burst.calls = 0 /\ ~burst.dropped /\ timer.pending)
    /\ (burst.edits > 0 /\ ~timer.pending) =>
            /\ sinceEdit >= Wait
            /\ IF burst.mounted
               THEN burst.calls = 1 /\ ~burst.dropped /\ codeHistory = text
               ELSE burst.calls = 0 /\ burst.dropped

C4_Witness ==
    /\ burst.edits = 2
    /\ burst.calls = 1
    /\ burst.history = 1
    /\ ~timer.pending
    /\ codeHistory = text

\* C5: a failure of the compile step or of the run never leaves updateModel
\* as a rejected promise, and a failed run shows a message in the console.
C5_FailuresReachConsole ==
    \A c \in Cycles :
        /\ cyc[c].pc # "rejected"
        /\ (cyc[c].pc = "done" /\ writer = c /\ cyc[c].lua = getTranspileOutput(CodeCallNil).lua)
            => \E i \in 1..Len(state.results) : state.results[i].method = "error"

\* C6: for ASCII-only lua, sourceMap and source the link's payload splits on
\* "," into exactly three fields that base64-decode to lua, sourceMap and
\* source, in this order, and no field's encoding holds a comma.
C6_AsciiRoundTrip ==
    (IsAscii(state.lua) /\ IsAscii(state.sourceMap) /\ IsAscii(state.source))
    => /\ ~sourceMapUrl.threw
       /\ sourceMapUrl.base = UrlBase
       /\ LET fields == Split(sourceMapUrl.payload)
          IN  /\ Len(fields) = 3
              /\ atob(fields[1]) = state.lua
              /\ atob(fields[2]) = state.sourceMap
              /\ atob(fields[3]) = state.source
              /\ \A i \in 1..3 : \A j \in 1..Len(fields[i]) :
                    fields[i][j] # Comma
       /\ Cardinality({j \in 1..Len(sourceMapUrl.payload) :
                            sourceMapUrl.payload[j] = Comma}) = 2

C6_Witness ==
    /\ state.lua = <<Comma, 127>>
    /\ state.sourceMap = <<127>>
    /\ state.source = <<Comma>>
    /\ Len(sourceMapUrl.payload) = 14

\* C7: a cycle is never cancelled: its first setState writes its compile
\* results with results = [], its second the same results with the messages
\* of running its lua; the run starts only after the first setState; and a
\* call whose await has an answer can always go on, whatever newer calls
\* have done meanwhile, so that every call that has ended did both.
C7_NoCancellation ==
    /\ [](\A c \in 1..MaxCycles :
            /\ cyc[c].pc \in {"idle", "compiling", "transpiled", "rejected"}
                => cyc[c].commits = 0
            /\ cyc[c].pc = "transpiled" => CanResumeAfterTranspile(c)
            /\ cyc[c].pc = "executing"
                => (cyc[c].commits = 1 /\ CanResumeAfterExecute(c))
            /\ cyc[c].pc = "done"
                => (cyc[c].commits = 2 /\ cyc[c].results = executeLua(cyc[c].lua)))
    /\ [][\A c \in 1..MaxCycles :
            /\ (cyc[c].commits = 0 /\ cyc'[c].commits # 0)
                => /\ cyc'[c].commits = 1
                   /\ cyc'[c].pc = "executing"
                   /\ state' = CompiledState(c)'
                   /\ writer' = c
            /\ (cyc[c].commits = 1 /\ cyc'[c].commits # 1)
                => /\ cyc'[c].commits = 2
                   /\ state' = [CompiledState(c) EXCEPT !.results = executeLua(cyc[c].lua)]
                   /\ writer' = c]_vars

C7_Witness ==
    /\ nCycles >= 2
    /\ cyc[2].pc = "done"
    /\ cyc[1].pc = "done"
    /\ writer = 1
    /\ state = ExecutedState(1)
    /\ state.lua # cyc[2].lua

\* C8: the visible state is the initial one or exactly what one setState of
\* one call wrote: its lua, ast, sourceMap and source are that call's, and its
\* results are empty or the messages of running the lua it shows.
C8_WholesaleReplacement ==
    /\ state.results = <<>> \/ state.results = executeLua(state.lua)
    /\ \/ writer = 0 /\ state = InitialEditorState
       \/ /\ writer \in Cycles
          /\ cyc[writer].commits >= 1
          /\ state \in {CompiledState(writer), ExecutedState(writer)}

C8_Witness ==
    /\ nCycles >= 2
    /\ cyc[1].pc = "done"
    /\ cyc[2].pc = "executing"
    /\ cyc[1].lua # cyc[2].lua
    /\ writer = 1
    /\ state.results = executeLua(cyc[1].lua)

\* C9: the source of the visible state is the text its lua, ast and sourceMap
\* were compiled from.
C9_SourceMatchesCompiled ==
    \/ state = InitialEditorState
    \/ /\ state.lua = getTranspileOutput(state.source).lua
       /\ state.ast = getTranspileOutput(state.source).ast
       /\ state.sourceMap = getTranspileOutput(state.source).sourceMap

====
